---- MODULE Spec2Model ----
(***************************************************************************)
(* Egg tracker (src/egg_tracker.py): one Streamlit page over one table,    *)
(* eggs(record_date UNIQUE, imani, hansel).                                *)
(*                                                                         *)
(* A page session runs main() from top to bottom on every interaction (a   *)
(* "run").  The run builds the engine, reads the whole table, shows the    *)
(* metrics, renders the entry form (which, in the run started by "Save     *)
(* Entry", executes the upsert and commits), and then filters the rows     *)
(* READ AT THE START OF THE RUN by the selected date range.                *)
(*                                                                         *)
(* Three specifications:                                                   *)
(*   Spec        one page session, every step and every handler of a run;  *)
(*   SpecConc    two page sessions whose write paths interleave;           *)
(*   SpecMetrics display_egg_metrics applied to every table of the bounds. *)
(***************************************************************************)
EXTENDS Integers, Sequences, FiniteSets, Bags, TLC

\* Calendar days are 1..MaxDate.
MaxDate == 3
\* The days the two concurrent sessions of SpecConc choose from.
MaxConcDate == 2

MIN_EGGS == 0
MAX_EGGS == 1

Dates == 1..MaxDate
ConcDates == 1..MaxConcDate
\* date.today(), the default of the form's date input.
Today == MaxDate
\* What a user may try to enter in a number input: the bounds and one beyond.
Typed == (MIN_EGGS - 1)..(MAX_EGGS + 1)

Sessions == {"s1", "s2"}

\* An optional value is a sequence of length 0 (absent) or 1 (present).
None == <<>>
Some(x) == <<x>>

MSG_SUCCESS == "Eggs recorded successfully!"
MSG_DB == "Database error"
MSG_LOAD == "Error loading data"
MSG_APP == "Application error"
MSG_INFO == "No data available yet"

VARIABLES
    table,      \* the eggs table: a bag of committed rows
    txn,        \* per session: the row its open transaction has upserted, if any
    lastOK,     \* history: per date, the counts of the latest committed submission
    pc,         \* per session: where its run of main() stands; "idle" between runs
    form,       \* per session: the values of the three form widgets
    submitted,  \* per session: st.form_submit_button is True in this run
    df,         \* per session: the DataFrame of display_egg_data (empty until read)
    shown,      \* per session: what the page displays
    fault       \* per session: what failed in this run

vars == <<table, txn, lastOK, pc, form, submitted, df, shown, fault>>

Row(d, i, h) == [record_date |-> d, imani |-> i, hansel |-> h]

\* The form's widgets at their defaults (lines 39-41).
Defaults == Row(Today, MIN_EGGS, MIN_EGGS)

\* What can make pd.read_sql raise.
ReadFaults == {"read:connect", "read:sql"}

\* A page on which nothing has been drawn yet.
Blank == [msgs |-> {}, metrics |-> None, rows |-> None,
          range |-> None, form |-> FALSE]

(***************************************************************************)
(* The database.                                                           *)
(***************************************************************************)

RowsOf(t) == BagToSet(t)

\* The rows of t whose key is d.
Hits(t, d) == {x \in RowsOf(t) : x.record_date = d}

\* How many rows of t have key d.
CountFor(t, d) == BagCardinality([x \in Hits(t, d) |-> t[x]])

\* A plausible bug: a plain INSERT, without the ON CONFLICT clause.
UpsertInsertOnly(t, r) == t (+) SetToBag({r})

\* A plausible bug: the conflict branch sets only one column.
UpsertImaniOnly(t, r) ==
    IF Hits(t, r.record_date) = {}
    THEN t (+) SetToBag({r})
    ELSE LET keep == [x \in RowsOf(t) \ Hits(t, r.record_date) |-> t[x]]
             upd == {[x EXCEPT !.imani = r.imani] : x \in Hits(t, r.record_date)}
         IN  keep (+) SetToBag(upd)

\* A plausible bug: the statement rewrites the table instead of one row.
UpsertReplaceAll(t, r) == SetToBag({r})

\* INSERT ... ON CONFLICT(record_date) DO UPDATE SET imani = EXCLUDED.imani,
\* hansel = EXCLUDED.hansel: a new row when no row has the date, otherwise
\* both counts of the row(s) with that date are overwritten.
Upsert(t, r) ==
    IF Hits(t, r.record_date) = {}
    THEN t (+) SetToBag({r})
    ELSE LET keep == [x \in RowsOf(t) \ Hits(t, r.record_date) |-> t[x]]
         IN  keep (+) [x \in {r} |-> CountFor(t, r.record_date)]

\* SELECT * FROM eggs ORDER BY record_date DESC, as a sequence of rows.
RECURSIVE read_sql(_)
read_sql(t) ==
    IF RowsOf(t) = {}
    THEN <<>>
    ELSE LET r == CHOOSE x \in RowsOf(t) :
                      \A y \in RowsOf(t) : y.record_date <= x.record_date
             rest == [x \in {y \in RowsOf(t) : y # r \/ t[y] > 1} |->
                          IF x = r THEN t[x] - 1 ELSE t[x]]
         IN  <<r>> \o read_sql(rest)

(***************************************************************************)
(* The pure parts of the page.                                             *)
(***************************************************************************)

\* A plausible bug: the widget is created without its bounds.
NumberInputUnbounded(v) == TRUE

\* st.number_input(label, MIN_EGGS, MAX_EGGS, step=1): the widget takes a
\* value only within its bounds.
NumberInput(v) == MIN_EGGS <= v /\ v <= MAX_EGGS

\* df[col].sum()
RECURSIVE ColSum(_, _)
ColSum(d, col) == IF d = <<>> THEN 0 ELSE Head(d)[col] + ColSum(Tail(d), col)

\* round(num / den, 2) in hundredths: to the nearest, a tie to the even one.
Round2(num, den) ==
    LET q == (100 * num) \div den
        r == (100 * num) % den
    IN  IF 2 * r < den THEN q
        ELSE IF 2 * r > den THEN q + 1
        ELSE IF q % 2 = 0 THEN q ELSE q + 1

\* A plausible bug: the average of one column only.
MetricsImaniAverage(d) ==
    [total_eggs |-> ColSum(d, "imani") + ColSum(d, "hansel"),
     imani_total |-> ColSum(d, "imani"),
     hansel_total |-> ColSum(d, "hansel"),
     avg_eggs |-> IF Len(d) > 0 THEN Round2(ColSum(d, "imani"), Len(d)) ELSE 0]

\* display_egg_metrics(df): the four metric cards; avg_eggs in hundredths.
display_egg_metrics(d) ==
    LET total_eggs == ColSum(d, "imani") + ColSum(d, "hansel")
    IN  [total_eggs |-> total_eggs,
         imani_total |-> ColSum(d, "imani"),
         hansel_total |-> ColSum(d, "hansel"),
         avg_eggs |-> IF Len(d) > 0 THEN Round2(total_eggs, Len(d)) ELSE 0]

\* A plausible bug: the upper bound of the range is exclusive.
FilterExclusiveEnd(d, a, b) ==
    SelectSeq(d, LAMBDA r : r.record_date >= a /\ r.record_date < b)

\* df[(df['record_date'] >= start_date) & (df['record_date'] <= end_date)]
Filter(d, a, b) ==
    SelectSeq(d, LAMBDA r : r.record_date >= a /\ r.record_date <= b)

\* df['record_date'].min() and .max() of a non-empty frame.
MinDate(d) == CHOOSE x \in {d[k].record_date : k \in DOMAIN d} :
                  \A k \in DOMAIN d : x <= d[k].record_date
MaxDateOf(d) == CHOOSE x \in {d[k].record_date : k \in DOMAIN d} :
                  \A k \in DOMAIN d : x >= d[k].record_date

(***************************************************************************)
(* One run of main() by page session s.                                    *)
(***************************************************************************)

Init ==
    /\ table = EmptyBag
    /\ txn = [s \in Sessions |-> None]
    /\ lastOK = [d \in Dates |-> None]
    /\ pc = [s \in Sessions |-> IF s = "s1" THEN "get_engine" ELSE "idle"]
    /\ form = [s \in Sessions |-> Defaults]
    /\ submitted = [s \in Sessions |-> FALSE]
    /\ df = [s \in Sessions |-> <<>>]
    /\ shown = [s \in Sessions |-> Blank]
    /\ fault = [s \in Sessions |-> {}]

\* The script starts again from the top: the page is redrawn from nothing
\* and df, a local of display_egg_data, does not exist yet.
StartRun(s) ==
    /\ pc' = [pc EXCEPT ![s] = "get_engine"]
    /\ df' = [df EXCEPT ![s] = <<>>]
    /\ shown' = [shown EXCEPT ![s] = Blank]
    /\ fault' = [fault EXCEPT ![s] = {}]

\* The script has run to its end.  st.form(..., clear_on_submit=True): the
\* widgets of the form go back to their defaults after every press of the
\* submit button, whatever the script did with the values.
EndRun(s) ==
    /\ pc' = [pc EXCEPT ![s] = "idle"]
    /\ form' = [form EXCEPT ![s] = IF submitted[s] THEN Defaults ELSE form[s]]
    /\ submitted' = [submitted EXCEPT ![s] = FALSE]

\* The user fills the form that is on the page and presses "Save Entry".
Submit(s, d, i, h) ==
    /\ pc[s] = "idle"
    /\ shown[s].form
    /\ NumberInput(i)
    /\ NumberInput(h)
    /\ form' = [form EXCEPT ![s] = Row(d, i, h)]
    /\ submitted' = [submitted EXCEPT ![s] = TRUE]
    /\ StartRun(s)
    /\ UNCHANGED <<table, txn, lastOK>>

\* Any other interaction (a reload, a change of the date range) reruns the
\* script without a submission.
Rerun(s) ==
    /\ pc[s] = "idle"
    /\ StartRun(s)
    /\ UNCHANGED <<table, txn, lastOK, form, submitted>>

\* get_engine(): create_engine(conn_string) builds the Engine and opens no
\* connection; the secrets lookup falls back silently.
GetEngine(s) ==
    /\ pc[s] = "get_engine"
    /\ pc' = [pc EXCEPT ![s] = "read"]
    /\ UNCHANGED <<table, txn, lastOK, form, submitted, df, shown, fault>>

\* create_engine raises (a connection string it cannot parse, no driver):
\* get_engine has no handler for it, main's handler reports it.
GetEngineFails(s) ==
    /\ pc[s] = "get_engine"
    /\ fault' = [fault EXCEPT ![s] = @ \cup {"create_engine"}]
    /\ shown' = [shown EXCEPT ![s].msgs = @ \cup {MSG_APP}]
    /\ EndRun(s)
    /\ UNCHANGED <<table, txn, lastOK, df>>

\* pd.read_sql succeeds; a non-empty frame gets its metrics shown at once.
ReadSql(s) ==
    /\ pc[s] = "read"
    /\ df' = [df EXCEPT ![s] = read_sql(table)]
    /\ shown' = [shown EXCEPT ![s].metrics =
                    IF read_sql(table) # <<>>
                    THEN Some(display_egg_metrics(read_sql(table)))
                    ELSE None]
    /\ pc' = [pc EXCEPT ![s] = "form"]
    /\ UNCHANGED <<table, txn, lastOK, form, submitted, fault>>

\* A plausible bug: display_egg_data without its handler, so that main's
\* handler reports the failure.
ReadSqlFailsUncaught(s, cause) ==
    /\ pc[s] = "read"
    /\ fault' = [fault EXCEPT ![s] = @ \cup {cause}]
    /\ shown' = [shown EXCEPT ![s].msgs = @ \cup {MSG_APP}]
    /\ EndRun(s)
    /\ UNCHANGED <<table, txn, lastOK, df>>

\* A plausible bug: the form rendered before the read, outside its try.
ReadSqlFailsAfterForm(s, cause) ==
    /\ pc[s] = "read"
    /\ fault' = [fault EXCEPT ![s] = @ \cup {cause}]
    /\ shown' = [shown EXCEPT ![s].msgs = @ \cup {MSG_LOAD}, ![s].form = TRUE]
    /\ EndRun(s)
    /\ UNCHANGED <<table, txn, lastOK, df>>

\* pd.read_sql raises: the server cannot be reached ("read:connect", the
\* first connection the engine opens) or the query fails ("read:sql", no
\* such table).  The handler of display_egg_data reports it; the form,
\* rendered only after the read, is not on the page.
ReadSqlFails(s, cause) ==
    /\ pc[s] = "read"
    /\ fault' = [fault EXCEPT ![s] = @ \cup {cause}]
    /\ shown' = [shown EXCEPT ![s].msgs = @ \cup {MSG_LOAD}]
    /\ EndRun(s)
    /\ UNCHANGED <<table, txn, lastOK, df>>

\* Another session's open transaction has written key d and not yet ended.
Locked(s, d) ==
    \E o \in Sessions \ {s} :
        IF txn[o] = None THEN FALSE ELSE txn[o][1].record_date = d

\* record_eggs_form in a run without a submission: the form is drawn.
FormIdle(s) ==
    /\ pc[s] = "form"
    /\ ~submitted[s]
    /\ shown' = [shown EXCEPT ![s].form = TRUE]
    /\ pc' = [pc EXCEPT ![s] = "after_form"]
    /\ UNCHANGED <<table, txn, lastOK, form, submitted, df, fault>>

\* conn.execute of the upsert inside the session's transaction.  The
\* statement waits while another open transaction has written the same key.
Execute(s) ==
    /\ pc[s] = "form"
    /\ submitted[s]
    /\ ~Locked(s, form[s].record_date)
    /\ txn' = [txn EXCEPT ![s] = Some(form[s])]
    /\ shown' = [shown EXCEPT ![s].form = TRUE]
    /\ pc' = [pc EXCEPT ![s] = "commit"]
    /\ UNCHANGED <<table, lastOK, form, submitted, df, fault>>

\* engine.connect() ("write:connect") or conn.execute ("write:sql") raises: the handler of record_eggs_form
\* reports it and the run goes on after the form.
ExecuteFails(s, cause) ==
    /\ pc[s] = "form"
    /\ submitted[s]
    /\ fault' = [fault EXCEPT ![s] = @ \cup {cause}]
    /\ shown' = [shown EXCEPT ![s].form = TRUE, ![s].msgs = @ \cup {MSG_DB}]
    /\ pc' = [pc EXCEPT ![s] = "after_form"]
    /\ UNCHANGED <<table, txn, lastOK, form, submitted, df>>

\* conn.commit(): the upsert becomes the table's content; st.success.
Commit(s) ==
    /\ pc[s] = "commit"
    /\ table' = Upsert(table, txn[s][1])
    /\ lastOK' = [lastOK EXCEPT ![txn[s][1].record_date] =
                     Some([imani |-> txn[s][1].imani, hansel |-> txn[s][1].hansel])]
    /\ txn' = [txn EXCEPT ![s] = None]
    /\ shown' = [shown EXCEPT ![s].msgs = @ \cup {MSG_SUCCESS}]
    /\ pc' = [pc EXCEPT ![s] = "after_form"]
    /\ UNCHANGED <<form, submitted, df, fault>>

\* "write:commit": conn.commit() raises: the connection closes without a commit, which
\* rolls the transaction back; the handler of record_eggs_form reports it.
CommitFails(s) ==
    /\ pc[s] = "commit"
    /\ txn' = [txn EXCEPT ![s] = None]
    /\ fault' = [fault EXCEPT ![s] = @ \cup {"write:commit"}]
    /\ shown' = [shown EXCEPT ![s].msgs = @ \cup {MSG_DB}]
    /\ pc' = [pc EXCEPT ![s] = "after_form"]
    /\ UNCHANGED <<table, lastOK, form, submitted, df>>

\* The empty-frame branch after the form: st.info.
ShowInfo(s) ==
    /\ pc[s] = "after_form"
    /\ df[s] = <<>>
    /\ shown' = [shown EXCEPT ![s].msgs = @ \cup {MSG_INFO}]
    /\ EndRun(s)
    /\ UNCHANGED <<table, txn, lastOK, df, fault>>

\* The range widget returns (a, b), within [min_date, max_date] of the
\* frame; the frame read at the start of the run is filtered and shown.
ShowRange(s, a, b) ==
    /\ pc[s] = "after_form"
    /\ df[s] # <<>>
    /\ MinDate(df[s]) <= a /\ a <= b /\ b <= MaxDateOf(df[s])
    /\ shown' = [shown EXCEPT ![s].rows = Some(Filter(df[s], a, b)),
                              ![s].range = <<a, b>>]
    /\ EndRun(s)
    /\ UNCHANGED <<table, txn, lastOK, df, fault>>

\* The range widget holds only a start date (the user is half-way through
\* picking a range): unpacking its 1-tuple raises ValueError, which the
\* handler of display_egg_data reports; no table is shown.
ShowRangePartial(s) ==
    /\ pc[s] = "after_form"
    /\ df[s] # <<>>
    /\ fault' = [fault EXCEPT ![s] = @ \cup {"unpack"}]
    /\ shown' = [shown EXCEPT ![s].msgs = @ \cup {MSG_LOAD}]
    /\ EndRun(s)
    /\ UNCHANGED <<table, txn, lastOK, df>>

\* main() and the user of page session s.
Run(s) ==
    \/ \E d \in Dates, i \in Typed, h \in Typed : Submit(s, d, i, h)
    \/ Rerun(s)
    \/ GetEngine(s)
    \/ GetEngineFails(s)
    \/ ReadSql(s)
    \/ \E cause \in ReadFaults : ReadSqlFails(s, cause)
    \/ FormIdle(s)
    \/ Execute(s)
    \/ \E cause \in {"write:connect", "write:sql"} : ExecuteFails(s, cause)
    \/ Commit(s)
    \/ CommitFails(s)
    \/ ShowInfo(s)
    \/ \E a \in Dates, b \in Dates : ShowRange(s, a, b)
    \/ ShowRangePartial(s)

Next == Run("s1")

Spec == Init /\ [][Next]_vars

(***************************************************************************)
(* Two page sessions submitting at the same time.  Reads do not change the *)
(* table, so a run is followed from the press of "Save Entry" straight to  *)
(* the form's submit branch, and from the end of the form to the end of    *)
(* the run.                                                                *)
(***************************************************************************)

\* Both pages have been rendered once over the empty table.
InitConc ==
    /\ table = EmptyBag
    /\ txn = [s \in Sessions |-> None]
    /\ lastOK = [d \in Dates |-> None]
    /\ pc = [s \in Sessions |-> "idle"]
    /\ form = [s \in Sessions |-> Defaults]
    /\ submitted = [s \in Sessions |-> FALSE]
    /\ df = [s \in Sessions |-> <<>>]
    /\ shown = [s \in Sessions |-> [Blank EXCEPT !.form = TRUE, !.msgs = {MSG_INFO}]]
    /\ fault = [s \in Sessions |-> {}]

\* "Save Entry" pressed; the run has reached line 43.
ConcSubmit(s, d, i, h) ==
    /\ pc[s] = "idle"
    /\ shown[s].form
    /\ NumberInput(i)
    /\ NumberInput(h)
    /\ form' = [form EXCEPT ![s] = Row(d, i, h)]
    /\ submitted' = [submitted EXCEPT ![s] = TRUE]
    /\ pc' = [pc EXCEPT ![s] = "form"]
    /\ shown' = [shown EXCEPT ![s] = Blank]
    /\ fault' = [fault EXCEPT ![s] = {}]
    /\ UNCHANGED <<table, txn, lastOK, df>>

\* The rest of the run after the form.
ConcFinish(s) ==
    /\ pc[s] = "after_form"
    /\ EndRun(s)
    /\ UNCHANGED <<table, txn, lastOK, df, shown, fault>>

NextConc ==
    \E s \in Sessions :
        \/ \E d \in ConcDates, i \in Typed, h \in Typed : ConcSubmit(s, d, i, h)
        \/ Execute(s)
        \/ \E cause \in {"write:connect", "write:sql"} : ExecuteFails(s, cause)
        \/ Commit(s)
        \/ CommitFails(s)
        \/ ConcFinish(s)

SpecConc == InitConc /\ [][NextConc]_vars

(***************************************************************************)
(* display_egg_metrics on every frame read_sql can return within the       *)
(* bounds, the empty one included.                                         *)
(***************************************************************************)

AllRows == {Row(d, i, h) : d \in Dates, i \in MIN_EGGS..MAX_EGGS, h \in MIN_EGGS..MAX_EGGS}

\* The contents the table can have: at most one row per date.
AllTables ==
    {t \in SUBSET AllRows : \A x \in t, y \in t : x.record_date = y.record_date => x = y}

InitMetrics ==
    /\ table = EmptyBag
    /\ txn = [s \in Sessions |-> None]
    /\ lastOK = [d \in Dates |-> None]
    /\ pc = [s \in Sessions |-> IF s = "s1" THEN "metrics" ELSE "idle"]
    /\ form = [s \in Sessions |-> Defaults]
    /\ submitted = [s \in Sessions |-> FALSE]
    /\ \E t \in AllTables :
           df = [s \in Sessions |-> IF s = "s1" THEN read_sql(SetToBag(t)) ELSE <<>>]
    /\ shown = [s \in Sessions |-> Blank]
    /\ fault = [s \in Sessions |-> {}]

\* display_egg_metrics(df) draws its four cards.
ShowMetrics(s) ==
    /\ pc[s] = "metrics"
    /\ shown' = [shown EXCEPT ![s].metrics = Some(display_egg_metrics(df[s]))]
    /\ pc' = [pc EXCEPT ![s] = "idle"]
    /\ UNCHANGED <<table, txn, lastOK, form, submitted, df, fault>>

NextMetrics == ShowMetrics("s1")

SpecMetrics == InitMetrics /\ [][NextMetrics]_vars

(***************************************************************************)
(* Properties.                                                             *)
(***************************************************************************)

Counts == MIN_EGGS..MAX_EGGS

\* The run of s has committed its submission and not yet ended.
JustWrote(s) == pc[s] = "after_form" /\ MSG_SUCCESS \in shown[s].msgs

\* pd.read_sql raised in the run of s.
ReadFailed(s) == fault[s] \cap ReadFaults # {}

\* The sum of a column, by a fold over the index set.
RECURSIVE SumOver(_, _, _)
SumOver(d, col, idx) ==
    IF idx = {} THEN 0
    ELSE LET k == CHOOSE k \in idx : TRUE
         IN  d[k][col] + SumOver(d, col, idx \ {k})

\* C1: after any sequence of successful submissions the table holds exactly
\* one row for every date submitted at least once, with the counts of the
\* latest successful submission for that date, and no row for any other
\* date; committing a row the table already holds leaves the table as it is.
C1_OneRowPerDateLatestWins ==
    /\ \A d \in Dates :
           IF lastOK[d] = None
           THEN CountFor(table, d) = 0
           ELSE /\ CountFor(table, d) = 1
                /\ Hits(table, d) = {Row(d, lastOK[d][1].imani, lastOK[d][1].hansel)}
    /\ \A s \in Sessions :
           IF pc[s] = "commit"
           THEN txn[s][1] \in RowsOf(table) => Upsert(table, txn[s][1]) = table
           ELSE TRUE

\* C1 witness: a submission has just overwritten the different counts that
\* an earlier submission for the same date had stored.
C1_Witness ==
    /\ JustWrote("s1")
    /\ \E k \in DOMAIN df["s1"] :
           /\ df["s1"][k].record_date = form["s1"].record_date
           /\ df["s1"][k] # form["s1"]
    /\ form["s1"] \in RowsOf(table)

\* C2 (as claimed): when the run that processed a submission has finished,
\* the metrics and the table on the page are those of the table's contents
\* after the write.
C2_DisplayReflectsWrite ==
    \A s \in Sessions :
        (pc[s] = "idle" /\ MSG_SUCCESS \in shown[s].msgs) =>
            /\ MSG_INFO \notin shown[s].msgs
            /\ shown[s].metrics = Some(display_egg_metrics(read_sql(table)))
            /\ IF shown[s].rows = None THEN TRUE
               ELSE shown[s].rows[1] =
                        Filter(read_sql(table), shown[s].range[1], shown[s].range[2])

\* C3: whatever the interleaving of two sessions' upserts and commits, every
\* date that has been committed reads back as exactly one row, and that row
\* is the whole submission of the session that committed last.
C3_LastCommitWins ==
    \A d \in Dates :
        IF lastOK[d] = None
        THEN Filter(read_sql(table), d, d) = <<>>
        ELSE Filter(read_sql(table), d, d) =
                 <<Row(d, lastOK[d][1].imani, lastOK[d][1].hansel)>>

\* C3 witness: both sessions' runs have committed, in overlapping runs, for
\* the same date with counts that differ in both columns.
C3_Witness ==
    /\ JustWrote("s1") /\ JustWrote("s2")
    /\ form["s1"].record_date = form["s2"].record_date
    /\ form["s1"].imani # form["s2"].imani
    /\ form["s1"].hansel # form["s2"].hansel

\* C4: every row of the table, and every row a transaction has written, has
\* both counts in {0, 1}.
C4_CountsInBounds ==
    /\ \A r \in RowsOf(table) : r.imani \in Counts /\ r.hansel \in Counts
    /\ \A s \in Sessions :
           IF txn[s] = None THEN TRUE
           ELSE txn[s][1].imani \in Counts /\ txn[s][1].hansel \in Counts

\* C4 witness: the form has stored both the lower and the upper bound.
C4_Witness ==
    /\ JustWrote("s1")
    /\ \E r \in RowsOf(table) : r.imani = MAX_EGGS /\ r.hansel = MIN_EGGS

\* C5: the metric cards of a frame are the column sums, their total, and
\* total / rows to the nearest hundredth, 0 for the empty frame; the frame
\* (D3,1,1), (D2,0,1), (D1,1,0) gives 4, 2, 2 and 1.33.
C5_Metrics ==
    \A s \in Sessions :
        IF shown[s].metrics = None THEN TRUE
        ELSE LET m == shown[s].metrics[1]
                 n == Len(df[s])
                 a == SumOver(df[s], "imani", DOMAIN df[s])
                 b == SumOver(df[s], "hansel", DOMAIN df[s])
                 err == 100 * (a + b) - m.avg_eggs * n
             IN  /\ m.imani_total = a
                 /\ m.hansel_total = b
                 /\ m.total_eggs = a + b
                 /\ n = 0 => m.avg_eggs = 0
                 /\ n > 0 => 2 * err <= n /\ -2 * err <= n
                 /\ df[s] = <<Row(3, 1, 1), Row(2, 0, 1), Row(1, 1, 0)>> =>
                        m = [total_eggs |-> 4, imani_total |-> 2,
                             hansel_total |-> 2, avg_eggs |-> 133]

\* C5 witness: the cards of that three-row frame, whose average is not a
\* whole number of hundredths, have been drawn.
C5_Witness ==
    /\ df["s1"] = <<Row(3, 1, 1), Row(2, 0, 1), Row(1, 1, 0)>>
    /\ shown["s1"].metrics # None
    /\ shown["s1"].metrics[1].avg_eggs = 133

\* C6: the table on the page is the loaded frame restricted to the rows
\* with start <= record_date <= end, in the frame's order, and the cards
\* are those of the whole frame whatever the range.
C6_FilterIsView ==
    \A s \in Sessions :
        IF shown[s].rows = None THEN TRUE
        ELSE LET out == shown[s].rows[1]
                 a == shown[s].range[1]
                 b == shown[s].range[2]
                 keep == {k \in DOMAIN df[s] :
                             a <= df[s][k].record_date /\ df[s][k].record_date <= b}
             IN  /\ Len(out) = Cardinality(keep)
                 /\ \A k \in keep : \E j \in DOMAIN out : out[j] = df[s][k]
                 /\ \A j \in DOMAIN out : \E k \in keep : out[j] = df[s][k]
                 /\ \A i \in DOMAIN out, j \in DOMAIN out :
                        i < j => out[i].record_date > out[j].record_date
                 /\ shown[s].metrics # None
                 /\ shown[s].metrics[1].total_eggs =
                        SumOver(df[s], "imani", DOMAIN df[s])
                        + SumOver(df[s], "hansel", DOMAIN df[s])

\* C6 witness: a range ending on a row's date that leaves other rows out.
C6_Witness ==
    /\ pc["s1"] = "idle"
    /\ shown["s1"].rows # None
    /\ Len(df["s1"]) = 3
    /\ Len(shown["s1"].rows[1]) = 2
    /\ shown["s1"].range = <<1, 2>>

\* C7 (as claimed): a run whose write raised ends with the form's widgets
\* still holding what the user entered.
C7_FormKeptAfterWriteError ==
    [][\A s \in Sessions :
           (pc[s] = "after_form" /\ MSG_DB \in shown[s].msgs /\ pc'[s] = "idle")
               => form'[s] = form[s]]_vars

\* C8 (as claimed): a failure to connect is reported by main's handler as
\* "Application error".
C8_ConnectReachesTop ==
    \A s \in Sessions :
        fault[s] \cap {"read:connect", "write:connect"} # {} => MSG_APP \in shown[s].msgs

\* C8 (amended): a failure to connect is reported by the handler of the
\* path that first uses the engine, never by main's; main's handler reports
\* only what get_engine itself raises.
C8_ConnectCaughtLocally ==
    \A s \in Sessions :
        /\ "read:connect" \in fault[s] => shown[s].msgs = {MSG_LOAD}
        /\ "write:connect" \in fault[s] =>
               MSG_DB \in shown[s].msgs /\ MSG_APP \notin shown[s].msgs
        /\ MSG_APP \in shown[s].msgs <=> "create_engine" \in fault[s]

\* C8 witness: a finished run in which the read could not connect.
C8_Witness ==
    /\ pc["s1"] = "idle"
    /\ "read:connect" \in fault["s1"]
    /\ MSG_LOAD \in shown["s1"].msgs

\* C9 (as claimed): after a failed read the run is over with the error
\* shown, no table, and the entry form on the page.
C9_FormAfterReadError ==
    \A s \in Sessions :
        ReadFailed(s) =>
            /\ pc[s] = "idle"
            /\ MSG_LOAD \in shown[s].msgs
            /\ shown[s].rows = None
            /\ shown[s].form

\* C9 (amended): after a failed read the run is over with only the read
\* path's error shown: no table, no metrics and no entry form.
C9_ReadErrorShown ==
    \A s \in Sessions :
        ReadFailed(s) =>
            /\ pc[s] = "idle"
            /\ shown[s].msgs = {MSG_LOAD}
            /\ shown[s].rows = None
            /\ shown[s].metrics = None
            /\ ~shown[s].form

\* C9 witness: a run started by a submission whose read failed because the
\* query did.
C9_Witness ==
    /\ "read:sql" \in fault["s1"]
    /\ table # EmptyBag
    /\ pc["s1"] = "idle"

\* C10: a step changes the rows of a date only by committing a submission
\* for that date; no step removes a date; a step that fails changes nothing.
C10_Frame ==
    [][/\ \A d \in Dates :
              Hits(table', d) # Hits(table, d) \/ CountFor(table', d) # CountFor(table, d)
                  => \E s \in Sessions :
                         /\ pc[s] = "commit"
                         /\ pc'[s] = "after_form"
                         /\ txn[s] = Some(Row(d, form[s].imani, form[s].hansel))
       /\ \A d \in Dates : CountFor(table, d) > 0 => CountFor(table', d) > 0
       /\ (\E s \in Sessions : fault'[s] # fault[s] /\ fault'[s] # {}) => table' = table
      ]_vars

\* C10 witness: a submission has been committed while the table held a row
\* of another date, which is still there.
C10_Witness ==
    /\ JustWrote("s1")
    /\ \E k \in DOMAIN df["s1"] :
           /\ df["s1"][k].record_date # form["s1"].record_date
           /\ df["s1"][k] \in RowsOf(table)

====
